---------------------------- MODULE Spec2Model ----------------------------
(***************************************************************************)
(* A model of the quantitative engine of OptiVerse (lib/portfolio):        *)
(* calculateReturns, calculateCovarianceMatrix, calculatePortfolioMetrics, *)
(* calculateMaxDrawdown, optimizePortfolio and generateEfficientFrontier.  *)
(*                                                                         *)
(* NUMBERS.  A JavaScript number is modelled as the real number it         *)
(* approximates, held as an exact reduced fraction, or as one of the IEEE  *)
(* special values NaN, +Infinity, -Infinity, which the code produces by    *)
(* dividing by zero and by reading past the end of an array (undefined     *)
(* coerces to NaN in arithmetic).  Rounding error of the doubles is not    *)
(* modelled.  Every zero the code divides by is +0 (a sum that starts at   *)
(* the literal 0, a square root, or n - 1), so x / 0 is +Infinity for      *)
(* x > 0, -Infinity for x < 0 and NaN for x = 0.                           *)
(*                                                                         *)
(* SQUARE ROOTS.  Math.sqrt(v) has no exact fraction, so the value         *)
(* y = Math.sqrt(v) and every value derived from it by division            *)
(* (the Sharpe ratio) is held as its signed square y * |y|.  The map       *)
(* y |-> y * |y| is a strictly increasing bijection of the extended reals  *)
(* that fixes 0, +Infinity and -Infinity and keeps NaN, so every           *)
(* comparison the code makes between two such values has the same outcome  *)
(* on their signed squares.                                                *)
(***************************************************************************)
EXTENDS Integers, Sequences, FiniteSets, TLC

(***************************************************************************)
(* Numbers                                                                 *)
(***************************************************************************)
RECURSIVE GCD(_, _)
GCD(a, b) == IF b = 0 THEN a ELSE GCD(b, a % b)

AbsInt(a) == IF a < 0 THEN -a ELSE a

SignInt(a) == IF a < 0 THEN -1 ELSE IF a = 0 THEN 0 ELSE 1

\* The reduced fraction n / d, d # 0.
R(n, d) ==
    LET g == GCD(AbsInt(n), AbsInt(d))
        s == IF d < 0 THEN -1 ELSE 1
    IN [k |-> "fin", n |-> s * (n \div g), d |-> s * (d \div g)]

I(n) == [k |-> "fin", n |-> n, d |-> 1]

Zero == I(0)

One == I(1)

NaN == [k |-> "nan", n |-> 0, d |-> 1]

PosInfinity == [k |-> "inf", n |-> 1, d |-> 1]

NegInfinity == [k |-> "inf", n |-> -1, d |-> 1]

Inf(s) == IF s < 0 THEN NegInfinity ELSE PosInfinity

IsNaN(x) == x.k = "nan"

Sign(x) == SignInt(x.n)

Neg(x) == [x EXCEPT !.n = -x.n]

Abs(x) == [x EXCEPT !.n = AbsInt(x.n)]

\* x + y
Add(x, y) ==
    IF IsNaN(x) \/ IsNaN(y) THEN NaN
    ELSE IF x.k = "inf" /\ y.k = "inf" THEN (IF x.n = y.n THEN x ELSE NaN)
    ELSE IF x.k = "inf" THEN x
    ELSE IF y.k = "inf" THEN y
    ELSE LET g == GCD(x.d, y.d)
         IN R(x.n * (y.d \div g) + y.n * (x.d \div g), (x.d \div g) * y.d)

\* x - y
Sub(x, y) == Add(x, Neg(y))

\* x * y
Mul(x, y) ==
    IF IsNaN(x) \/ IsNaN(y) THEN NaN
    ELSE IF x.k = "inf" \/ y.k = "inf"
         THEN (IF Sign(x) = 0 \/ Sign(y) = 0 THEN NaN ELSE Inf(Sign(x) * Sign(y)))
    ELSE LET g1 == GCD(AbsInt(x.n), y.d)
             g2 == GCD(AbsInt(y.n), x.d)
         IN [k |-> "fin",
             n |-> (x.n \div g1) * (y.n \div g2),
             d |-> (x.d \div g2) * (y.d \div g1)]

\* x / y, the divisor's zero being +0
Div(x, y) ==
    IF IsNaN(x) \/ IsNaN(y) THEN NaN
    ELSE IF y.k = "inf" THEN (IF x.k = "inf" THEN NaN ELSE Zero)
    ELSE IF x.k = "inf" THEN Inf(Sign(x) * (IF y.n < 0 THEN -1 ELSE 1))
    ELSE IF y.n = 0 THEN (IF x.n = 0 THEN NaN ELSE Inf(Sign(x)))
    ELSE Mul(x, R(y.d, y.n))

\* x < y; false when either is NaN
Lt(x, y) ==
    IF IsNaN(x) \/ IsNaN(y) THEN FALSE
    ELSE IF x.k = "inf" THEN x.n < 0 /\ y # NegInfinity
    ELSE IF y.k = "inf" THEN y.n > 0
    ELSE Sign(Sub(x, y)) < 0

\* x > y
Gt(x, y) == Lt(y, x)

\* x <= y
Le(x, y) == (~IsNaN(x)) /\ (~IsNaN(y)) /\ ~Lt(y, x)

\* x >= y
Ge(x, y) == Le(y, x)

\* Math.sqrt(x), held as its signed square
Sqrt(x) ==
    IF IsNaN(x) \/ Sign(x) < 0 THEN NaN ELSE x

\* x / y for y held as a signed square; the quotient is held as its signed square
DivBySqrt(x, y) == Div(Mul(x, Abs(x)), y)

\* arr[i] of a 0-based JavaScript array held as the sequence arr, in arithmetic:
\* undefined (an index past the end) coerces to NaN
At(arr, i) == IF i + 1 \in DOMAIN arr THEN arr[i + 1] ELSE NaN


(***************************************************************************)
(* Program constants                                                       *)
(***************************************************************************)
\* trading days per year: the annualisation factor
TradingDays == 252

\* riskFreeRate = 0.02
riskFreeRate == R(2, 100)

\* the frontier's return tolerance 0.01
returnTolerance == R(1, 100)

\* the frontier's first target 0.05 and the width 0.25 of its sweep
frontierFirstTarget == R(5, 100)

frontierSweep == R(25, 100)

(***************************************************************************)
(* calculateReturns, calculateCovarianceMatrix                             *)
(***************************************************************************)
\* the returns with each change divided by the later price
calculateReturns_OverNext(prices) ==
    [i \in 1..(Len(prices) - 1) |->
        Div(Sub(prices[i + 1], prices[i]), prices[i + 1])]

\* returns[i-1] = (prices[i] - prices[i-1]) / prices[i-1], i = 1 .. length-1
calculateReturns(prices) ==
    [i \in 1..(Len(prices) - 1) |->
        Div(Sub(prices[i + 1], prices[i]), prices[i])]

\* arr.reduce((sum, x) => sum + x, 0)
RECURSIVE SumFrom(_, _, _)
SumFrom(arr, i, acc) ==
    IF i > Len(arr) THEN acc ELSE SumFrom(arr, i + 1, Add(acc, arr[i]))

Sum(arr) == SumFrom(arr, 1, Zero)

\* assetReturns.reduce(...) / assetReturns.length
Mean(assetReturns) == Div(Sum(assetReturns), I(Len(assetReturns)))

\* the k loop: covariance += (returns[i][k] - means[i]) * (returns[j][k] - means[j])
RECURSIVE CovarianceSum(_, _, _, _, _, _, _)
CovarianceSum(ri, rj, meani, meanj, m, k, acc) ==
    IF k >= m THEN acc
    ELSE CovarianceSum(ri, rj, meani, meanj, m, k + 1,
            Add(acc, Mul(Sub(At(ri, k), meani), Sub(At(rj, k), meanj))))

\* the entry with the means left out of the deviations
CovarianceEntry_Uncentred(ri, rj, m) ==
    Mul(Div(CovarianceSum(ri, rj, Zero, Zero, m, 0, Zero), I(m - 1)),
        I(TradingDays))

\* covMatrix[i][j] = covariance / (m - 1) * 252
CovarianceEntry(ri, rj, m) ==
    Mul(Div(CovarianceSum(ri, rj, Mean(ri), Mean(rj), m, 0, Zero), I(m - 1)),
        I(TradingDays))

\* returns[0].length of an empty list is a TypeError
covarianceThrows(returns) == Len(returns) = 0

\* the matrix with the entries below the diagonal left at 0
calculateCovarianceMatrix_UpperOnly(returns) ==
    LET n == Len(returns)
        m == Len(returns[1])
    IN [i \in 1..n |-> [j \in 1..n |->
            IF j < i THEN Zero ELSE CovarianceEntry(returns[i], returns[j], m)]]

\* the n x n matrix, for n >= 1; m is the length of the FIRST series
calculateCovarianceMatrix(returns) ==
    LET n == Len(returns)
        m == Len(returns[1])
    IN [i \in 1..n |-> [j \in 1..n |-> CovarianceEntry(returns[i], returns[j], m)]]

(***************************************************************************)
(* calculatePortfolioMetrics and its helpers                               *)
(***************************************************************************)
\* the means with the annualisation left out
meanReturns_Daily(returns) ==
    [i \in 1..Len(returns) |-> Mean(returns[i])]

\* meanReturns[i] = mean of asset i's returns * 252
meanReturns(returns) ==
    [i \in 1..Len(returns) |-> Mul(Mean(returns[i]), I(TradingDays))]

\* weights.reduce((sum, weight, i) => sum + weight * meanReturns[i], 0)
RECURSIVE ExpectedReturnFrom(_, _, _, _)
ExpectedReturnFrom(weights, means, i, acc) ==
    IF i >= Len(weights) THEN acc
    ELSE ExpectedReturnFrom(weights, means, i + 1,
            Add(acc, Mul(At(weights, i), At(means, i))))

expectedReturnOf(returns, weights) ==
    ExpectedReturnFrom(weights, meanReturns(returns), 0, Zero)

\* the i, j loops: portfolioVariance += weights[i] * weights[j] * covMatrix[i][j]
RECURSIVE VarianceFrom(_, _, _, _)
VarianceFrom(weights, covMatrix, ij, acc) ==
    LET w == Len(weights)
        i == ij \div w
        j == ij % w
    IN IF w = 0 \/ ij >= w * w THEN acc
       ELSE VarianceFrom(weights, covMatrix, ij + 1,
               Add(acc, Mul(Mul(At(weights, i), At(weights, j)),
                            At(covMatrix[i + 1], j))))

\* covMatrix[i] is undefined for i >= n: covMatrix[i][j] is a TypeError
varianceThrows(returns, weights) == Len(weights) > Len(returns)

portfolioVarianceOf(returns, weights) ==
    VarianceFrom(weights, calculateCovarianceMatrix(returns), 0, Zero)

\* periodReturn = sum over j < weights.length of weights[j] * returns[j][i]
RECURSIVE PeriodReturnFrom(_, _, _, _, _)
PeriodReturnFrom(returns, weights, i, j, acc) ==
    IF j >= Len(weights) THEN acc
    ELSE PeriodReturnFrom(returns, weights, i, j + 1,
            Add(acc, Mul(At(weights, j), At(returns[j + 1], i))))

\* one entry per period of the FIRST series
calculatePortfolioReturns(returns, weights) ==
    [i \in 1..Len(returns[1]) |-> PeriodReturnFrom(returns, weights, i - 1, 0, Zero)]

\* the loop of calculateBeta: <<covariance, marketVariance>>
RECURSIVE BetaSums(_, _, _, _, _, _, _)
BetaSums(portfolioReturns, marketReturns, pMean, mMean, i, cov, mvar) ==
    IF i >= Len(portfolioReturns) THEN <<cov, mvar>>
    ELSE LET portfolioDeviation == Sub(At(portfolioReturns, i), pMean)
             marketDeviation == Sub(At(marketReturns, i), mMean)
         IN BetaSums(portfolioReturns, marketReturns, pMean, mMean, i + 1,
                     Add(cov, Mul(portfolioDeviation, marketDeviation)),
                     Add(mvar, Mul(marketDeviation, marketDeviation)))

\* covariance / marketVariance
calculateBeta(portfolioReturns, marketReturns) ==
    LET s == BetaSums(portfolioReturns, marketReturns,
                      Mean(portfolioReturns), Mean(marketReturns), 0, Zero, Zero)
    IN Div(s[1], s[2])

\* portfolioValue at period i: sum over j < assets.length of weights[j] * prices[j][i]
RECURSIVE PortfolioValueFrom(_, _, _, _, _)
PortfolioValueFrom(assets, weights, i, j, acc) ==
    IF j >= Len(assets) THEN acc
    ELSE PortfolioValueFrom(assets, weights, i, j + 1,
            Add(acc, Mul(At(weights, j), At(assets[j + 1].prices, i))))

\* one value per price of the FIRST asset
portfolioValuesOf(assets, weights) ==
    [i \in 1..Len(assets[1].prices) |->
        PortfolioValueFrom(assets, weights, i - 1, 0, Zero)]

\* the peak / drawdown loop, i = 1 .. length-1
RECURSIVE DrawdownFrom(_, _, _, _)
DrawdownFrom(portfolioValues, i, peak, maxDrawdown) ==
    IF i >= Len(portfolioValues) THEN maxDrawdown
    ELSE LET v == At(portfolioValues, i)
             newPeak == IF Gt(v, peak) THEN v ELSE peak
             drawdown == Div(Sub(newPeak, v), newPeak)
         IN DrawdownFrom(portfolioValues, i + 1, newPeak,
                         IF Gt(drawdown, maxDrawdown) THEN drawdown ELSE maxDrawdown)

\* the loop with the peak left at the first value
RECURSIVE DrawdownFrom_FixedPeak(_, _, _, _)
DrawdownFrom_FixedPeak(portfolioValues, i, peak, maxDrawdown) ==
    IF i >= Len(portfolioValues) THEN maxDrawdown
    ELSE LET drawdown == Div(Sub(peak, At(portfolioValues, i)), peak)
         IN DrawdownFrom_FixedPeak(portfolioValues, i + 1, peak,
                IF Gt(drawdown, maxDrawdown) THEN drawdown ELSE maxDrawdown)

maxDrawdownOfValues_FixedPeak(portfolioValues) ==
    DrawdownFrom_FixedPeak(portfolioValues, 1, At(portfolioValues, 0), Zero)

maxDrawdownOfValues(portfolioValues) ==
    DrawdownFrom(portfolioValues, 1, At(portfolioValues, 0), Zero)

calculateMaxDrawdown(assets, weights) ==
    maxDrawdownOfValues(portfolioValuesOf(assets, weights))

\* the outcome of a call that ended in a TypeError
Thrown ==
    [threw |-> TRUE, expectedReturn |-> NaN, volatility |-> NaN,
     sharpeRatio |-> NaN, beta |-> NaN, maxDrawdown |-> NaN, weights |-> <<>>]

\* The PortfolioMetrics of a call (threw = FALSE), or Thrown.  volatility and
\* sharpeRatio are held as signed squares; var95 is not modelled.
calculatePortfolioMetrics(assets, weights, marketReturns) ==
    LET returns == [i \in 1..Len(assets) |-> assets[i].returns]
    IN IF covarianceThrows(returns) \/ varianceThrows(returns, weights) THEN Thrown
       ELSE LET expectedReturn == expectedReturnOf(returns, weights)
                volatility == Sqrt(portfolioVarianceOf(returns, weights))
            IN [threw |-> FALSE,
                expectedReturn |-> expectedReturn,
                volatility |-> volatility,
                sharpeRatio |-> DivBySqrt(Sub(expectedReturn, riskFreeRate), volatility),
                beta |-> calculateBeta(calculatePortfolioReturns(returns, weights),
                                       marketReturns),
                maxDrawdown |-> calculateMaxDrawdown(assets, weights),
                weights |-> weights]

\* an Asset built from its prices as createDefaultAssets builds it
MakeAsset(prices) == [prices |-> prices, returns |-> calculateReturns(prices)]

\* a price series of whole numbers
Prices(ints) == [i \in 1..Len(ints) |-> I(ints[i])]

(***************************************************************************)
(* Bounds and inputs                                                       *)
(***************************************************************************)
\* Math.random() draws one of 0, 1/DrawDen, .., (DrawDen-1)/DrawDen
DrawDen == 2

\* optimizePortfolio's iteration budget (10000 in the source)
OptIterations == 3

\* generateEfficientFrontier's iteration budget per target (1000 in the source)
FrontierIterations == 2

\* numPoints ranges over 1 .. MaxPoints
MaxPoints == 2

\* a direct call of calculatePortfolioMetrics is given at most MaxAssets assets
\* and at most MaxAssets weights
MaxAssets == 2

\* the weights of a direct call are the fractions k/d in [0, 1] with d <= WeightDen
WeightDen == 2

\* the longest price series given to a direct call of calculateReturns
MaxPrices == 3

Draws == {R(k, DrawDen) : k \in 0..(DrawDen - 1)}

\* The spec's scenario assets and a falling one
AssetA == MakeAsset(Prices(<<100, 110, 121>>))

AssetB == MakeAsset(Prices(<<50, 50, 50>>))

AssetC == MakeAsset(Prices(<<100, 80, 90>>))

\* a series that rises, then falls below its start
AssetD == MakeAsset(Prices(<<100, 120, 90>>))

\* a series one observation short of the others
AssetShort == MakeAsset(Prices(<<100, 110>>))

\* daily returns 0 and 1/2520: annualised mean 0.05
AssetLo == MakeAsset(Prices(<<2520, 2520, 2521>>))

\* daily returns -1/2520 and 2/2520: annualised mean 0.05, a larger variance
AssetLoWide == MakeAsset(<<I(2520), I(2519), R(3176459, 1260)>>)

\* daily returns 1/840 and 1/840: annualised mean 0.30, no variance
AssetHi == MakeAsset(<<I(840), I(841), R(707281, 840)>>)

\* the asset lists given to a direct call of calculatePortfolioMetrics
\* AssetC's two returns in the other order
AssetCReversed == MakeAsset(<<I(100), R(225, 2), I(90)>>)

MetricsCatalog == {AssetA, AssetB, AssetC, AssetD, AssetShort}

MetricsInputs ==
    UNION {[1..n -> MetricsCatalog] : n \in 0..MaxAssets}

WeightValues == {R(k, d) : k \in 0..WeightDen, d \in 1..WeightDen}

WeightInputs ==
    UNION {[1..n -> {w \in WeightValues : Le(w, One)}] : n \in 0..MaxAssets}

\* the asset lists given to optimizePortfolio
OptimizerInputs ==
    { <<>>, <<AssetB>>, <<AssetA>>, <<AssetC>>, <<AssetLo>>,
      <<AssetA, AssetC>>, <<AssetC, AssetB>>, <<AssetLo, AssetHi>>,
      <<AssetLo, AssetLo>>, <<AssetC, AssetCReversed>> }

\* the asset lists given to generateEfficientFrontier
FrontierInputs ==
    { <<>>, <<AssetB>>, <<AssetLo>>, <<AssetLo, AssetHi>>,
      <<AssetLo, AssetLoWide>>, <<AssetLo, AssetLo>> }

(***************************************************************************)
(* State                                                                   *)
(***************************************************************************)
VARIABLES
    pc,              \* where the call stands
    assets,          \* the call's asset list
    weights,         \* calculatePortfolioMetrics: the weights of a direct call
    metrics,         \* the PortfolioMetrics a call returned (or Thrown)
    iteration,       \* the loop counter of the random search
    bestSharpe,      \* optimizePortfolio
    bestWeights,     \* optimizePortfolio, generateEfficientFrontier
    bestVolatility,  \* generateEfficientFrontier
    numPoints,       \* generateEfficientFrontier
    i,               \* generateEfficientFrontier: the index of the target
    frontierPoints,  \* generateEfficientFrontier
    returned,        \* generateEfficientFrontier: the sequence it returned
    candidates,      \* history: the candidates evaluated (for the current target)
    arg,             \* a direct call of calculateReturns or
                     \* calculateCovarianceMatrix: its argument
    result,          \* ... and the value it returned
    customTicker,    \* AssetSelector: the text of the ticker input
    ops,             \* AssetSelector: the number of handlers that have run
    lastOp,          \* history: the handler that ran last, and on which symbol
    viewType,        \* AllocationChart
    allocationData   \* AllocationChart: the rows of the last render

vars == <<pc, assets, weights, metrics, iteration, bestSharpe, bestWeights,
          bestVolatility, numPoints, i, frontierPoints, returned, candidates,
          arg, result, customTicker, ops, lastOp, viewType, allocationData>>

\* the state of the components and of the direct calls of the series functions
componentVars == <<arg, result, customTicker, ops, lastOp, viewType,
                   allocationData>>

NoOp == [op |-> "none", symbol |-> ""]

NoMetrics == [Thrown EXCEPT !.threw = FALSE]

\* no direct call of a series function
NoCall ==
    /\ arg = <<>>
    /\ result = <<>>

\* no component mounted
NoComponents ==
    /\ customTicker = ""
    /\ ops = 0
    /\ lastOp = NoOp
    /\ viewType = "pie"
    /\ allocationData = <<>>

\* the locals of the search loops before they start
LoopsIdle ==
    /\ metrics = NoMetrics
    /\ iteration = 0
    /\ bestSharpe = NegInfinity
    /\ bestWeights = <<>>
    /\ bestVolatility = PosInfinity
    /\ i = 0
    /\ frontierPoints = <<>>
    /\ returned = <<>>
    /\ candidates = <<>>

Idle ==
    /\ metrics = NoMetrics
    /\ iteration = 0
    /\ bestSharpe = NegInfinity
    /\ bestWeights = <<>>
    /\ bestVolatility = PosInfinity
    /\ i = 0
    /\ frontierPoints = <<>>
    /\ returned = <<>>
    /\ candidates = <<>>
    /\ NoCall
    /\ NoComponents

(***************************************************************************)
(* A direct call of calculatePortfolioMetrics                              *)
(***************************************************************************)
\* the market series the callers pass: assets[0].returns
marketReturnsOf(as) == IF Len(as) = 0 THEN <<>> ELSE as[1].returns

InitMetrics ==
    /\ pc = "metrics"
    /\ assets \in MetricsInputs
    /\ weights \in WeightInputs
    /\ numPoints = 0
    /\ Idle

callPortfolioMetrics ==
    /\ pc = "metrics"
    /\ UNCHANGED componentVars
    /\ metrics' = calculatePortfolioMetrics(assets, weights, marketReturnsOf(assets))
    /\ pc' = IF metrics'.threw THEN "threw" ELSE "returned"
    /\ UNCHANGED <<assets, weights, iteration, bestSharpe, bestWeights,
                   bestVolatility, numPoints, i, frontierPoints, returned,
                   candidates>>

NextMetrics == callPortfolioMetrics

SpecMetrics == InitMetrics /\ [][NextMetrics]_vars

(***************************************************************************)
(* The random candidate                                                    *)
(***************************************************************************)
\* weights.map(w => w / sum), sum = weights.reduce((acc, w) => acc + w, 0)
normalize(draws) ==
    [j \in 1..Len(draws) |-> Div(draws[j], Sum(draws))]

\* Array.from({ length: n }, () => Math.random())
RandomWeights(n) == [1..n -> Draws]

\* the normalizedWeights one pass of a search loop can build for n assets
NormalizedWeights(n) == {normalize(draws) : draws \in RandomWeights(n)}

\* the history's record of an evaluated candidate
Candidate(w, m) ==
    [weights |-> w, expectedReturn |-> m.expectedReturn,
     volatility |-> m.volatility, sharpeRatio |-> m.sharpeRatio]

(***************************************************************************)
(* optimizePortfolio                                                       *)
(***************************************************************************)
InitOptimize ==
    /\ pc = "optimize"
    /\ assets \in OptimizerInputs
    /\ weights = <<>>
    /\ numPoints = 0
    /\ Idle

\* the comparison taking any candidate whose Sharpe ratio differs from the best
improvesSharpe_Differs(sharpeRatio, best) ==
    (~IsNaN(sharpeRatio)) /\ sharpeRatio # best

\* metrics.sharpeRatio > bestSharpe
improvesSharpe(sharpeRatio, best) == Gt(sharpeRatio, best)

\* one pass of the loop body
optimizeIterate ==
    /\ pc = "optimize"
    /\ UNCHANGED componentVars
    /\ iteration < OptIterations
    /\ \E normalizedWeights \in NormalizedWeights(Len(assets)) :
            IF Len(assets) = 0
            THEN \* assets[0].returns: TypeError
                 /\ pc' = "threw"
                 /\ metrics' = Thrown
                 /\ UNCHANGED <<iteration, bestSharpe, bestWeights, candidates>>
            ELSE LET m == calculatePortfolioMetrics(assets, normalizedWeights,
                                                    assets[1].returns)
                     better == improvesSharpe(m.sharpeRatio, bestSharpe)
                 IN /\ bestSharpe' = IF better THEN m.sharpeRatio ELSE bestSharpe
                    /\ bestWeights' = IF better THEN normalizedWeights ELSE bestWeights
                    /\ iteration' = iteration + 1
                    /\ candidates' = Append(candidates, Candidate(normalizedWeights, m))
                    /\ UNCHANGED <<pc, metrics>>
    /\ UNCHANGED <<assets, weights, bestVolatility, numPoints, i, frontierPoints,
                   returned>>

\* return calculatePortfolioMetrics(assets, bestWeights, assets[0].returns)
optimizeReturn ==
    /\ pc = "optimize"
    /\ UNCHANGED componentVars
    /\ iteration = OptIterations
    /\ metrics' = calculatePortfolioMetrics(assets, bestWeights, assets[1].returns)
    /\ pc' = "returned"
    /\ UNCHANGED <<assets, weights, iteration, bestSharpe, bestWeights,
                   bestVolatility, numPoints, i, frontierPoints, returned,
                   candidates>>

NextOptimize == optimizeIterate \/ optimizeReturn

SpecOptimize == InitOptimize /\ [][NextOptimize]_vars

(***************************************************************************)
(* generateEfficientFrontier                                               *)
(***************************************************************************)
InitFrontier ==
    /\ pc = "frontier"
    /\ assets \in FrontierInputs
    /\ weights = <<>>
    /\ numPoints \in 1..MaxPoints
    /\ Idle

\* targetReturn = 0.05 + (i / (numPoints - 1)) * 0.25
targetReturn(idx, n) ==
    Add(frontierFirstTarget, Mul(Div(I(idx), I(n - 1)), frontierSweep))

\* the comparison without Math.abs
closeToTarget_Signed(expectedReturn, target) ==
    Lt(Sub(expectedReturn, target), returnTolerance)

\* Math.abs(metrics.expectedReturn - targetReturn) < 0.01
closeToTarget(expectedReturn, target) ==
    Lt(Abs(Sub(expectedReturn, target)), returnTolerance)

\* the condition without its volatility comparison
acceptsCandidate_AnyClose(m, target, best) ==
    closeToTarget(m.expectedReturn, target)

\* ... && metrics.volatility < bestVolatility
acceptsCandidate(m, target, best) ==
    closeToTarget(m.expectedReturn, target) /\ Lt(m.volatility, best)

\* the comparator (a, b) => a.volatility - b.volatility is negative
volatilityBefore(a, b) == Lt(Sub(a.volatility, b.volatility), Zero)

\* x put behind every element it does not precede (the sort is stable)
RECURSIVE InsertByVolatility(_, _)
InsertByVolatility(sorted, x) ==
    IF sorted = <<>> THEN <<x>>
    ELSE IF volatilityBefore(x, Head(sorted)) THEN <<x>> \o sorted
    ELSE <<Head(sorted)>> \o InsertByVolatility(Tail(sorted), x)

RECURSIVE SortFrom(_, _, _)
SortFrom(points, k, acc) ==
    IF k > Len(points) THEN acc
    ELSE SortFrom(points, k + 1, InsertByVolatility(acc, points[k]))

\* a sort that is left out
sortByVolatility_Unsorted(points) == points

\* frontierPoints.sort((a, b) => a.volatility - b.volatility)
sortByVolatility(points) == SortFrom(points, 1, <<>>)

\* the EfficientFrontierPoint pushed for bestWeights
FrontierPoint(m, w) ==
    [return |-> m.expectedReturn, volatility |-> m.volatility,
     sharpeRatio |-> m.sharpeRatio, weights |-> w]

\* one pass of the inner loop body
frontierIterate ==
    /\ pc = "frontier"
    /\ UNCHANGED componentVars
    /\ i < numPoints
    /\ iteration < FrontierIterations
    /\ \E normalizedWeights \in NormalizedWeights(Len(assets)) :
            IF Len(assets) = 0
            THEN \* assets[0].returns: TypeError
                 /\ pc' = "threw"
                 /\ UNCHANGED <<iteration, bestVolatility, bestWeights, candidates>>
            ELSE LET m == calculatePortfolioMetrics(assets, normalizedWeights,
                                                    assets[1].returns)
                     better == acceptsCandidate(m, targetReturn(i, numPoints),
                                                bestVolatility)
                     c == Candidate(normalizedWeights, m)
                 IN /\ bestVolatility' = IF better THEN m.volatility ELSE bestVolatility
                    /\ bestWeights' = IF better THEN normalizedWeights ELSE bestWeights
                    /\ iteration' = iteration + 1
                    /\ candidates' = Append(candidates, c)
                    /\ UNCHANGED pc
    /\ UNCHANGED <<assets, weights, metrics, bestSharpe, numPoints, i,
                   frontierPoints, returned>>

\* the end of the outer loop body: if (bestWeights.length > 0) push; next target
frontierNextPoint ==
    /\ pc = "frontier"
    /\ UNCHANGED componentVars
    /\ i < numPoints
    /\ iteration = FrontierIterations
    /\ frontierPoints' =
          IF Len(bestWeights) > 0
          THEN Append(frontierPoints,
                      FrontierPoint(calculatePortfolioMetrics(assets, bestWeights,
                                                              assets[1].returns),
                                    bestWeights))
          ELSE frontierPoints
    /\ i' = i + 1
    /\ iteration' = 0
    /\ bestVolatility' = PosInfinity
    /\ bestWeights' = <<>>
    /\ candidates' = <<>>
    /\ UNCHANGED <<pc, assets, weights, metrics, bestSharpe, numPoints, returned>>

\* return frontierPoints.sort(...)
frontierReturn ==
    /\ pc = "frontier"
    /\ UNCHANGED componentVars
    /\ i = numPoints
    /\ returned' = sortByVolatility(frontierPoints)
    /\ pc' = "returned"
    /\ UNCHANGED <<assets, weights, metrics, iteration, bestSharpe, bestWeights,
                   bestVolatility, numPoints, i, frontierPoints, candidates>>

NextFrontier == frontierIterate \/ frontierNextPoint \/ frontierReturn

SpecFrontier == InitFrontier /\ [][NextFrontier]_vars

(***************************************************************************)
(* Properties                                                              *)
(***************************************************************************)
\* w has no negative entry and sums to 1
OnSimplex(w) ==
    /\ \A j \in 1..Len(w) : Ge(w[j], Zero)
    /\ Sum(w) = One

\* C1: every candidate weight vector the random search builds and passes to
\* calculatePortfolioMetrics has no negative entry and sums to 1, draws equal
\* to 0 included.
C1_CandidateWeightsOnSimplex ==
    \A k \in 1..Len(candidates) : OnSimplex(candidates[k].weights)

\* the index of the earliest candidate among the first k whose Sharpe ratio is
\* >= that of each of the first k; 0 when there is none
EarliestMaxSharpe(k) ==
    LET isMax(a) == \A b \in 1..k :
                        Ge(candidates[a].sharpeRatio, candidates[b].sharpeRatio)
        maxima == {a \in 1..k : isMax(a)}
    IN IF maxima = {} THEN 0
       ELSE CHOOSE a \in maxima : \A b \in maxima : a <= b

\* C2: after iteration k of optimizePortfolio the retained pair (bestSharpe,
\* bestWeights) is the earliest candidate of highest Sharpe ratio among the
\* first k, and the Sharpe ratio of the returned metrics is >= that of every
\* candidate evaluated.
C2_RetainsEarliestBestSharpe ==
    pc \in {"optimize", "returned"} /\ iteration >= 1 =>
        /\ EarliestMaxSharpe(iteration) # 0
        /\ bestSharpe = candidates[EarliestMaxSharpe(iteration)].sharpeRatio
        /\ bestWeights = candidates[EarliestMaxSharpe(iteration)].weights
        /\ pc = "returned" =>
              \A k \in 1..Len(candidates) :
                  Ge(metrics.sharpeRatio, candidates[k].sharpeRatio)

\* C3: for a non-empty asset list the metrics optimizePortfolio returns carry
\* the weight vector of one of the candidates sampled in the call: one entry
\* per asset, summing to 1.
C3_ReturnsASampledCandidate ==
    pc = "returned" /\ Len(assets) >= 1 /\ numPoints = 0 /\ iteration >= 1 =>
        /\ \E k \in 1..Len(candidates) : metrics.weights = candidates[k].weights
        /\ Len(metrics.weights) = Len(assets)
        /\ Sum(metrics.weights) = One

\* C4: the sequence generateEfficientFrontier returns is ascending in
\* volatility, and every point's weight vector has one entry per asset and
\* sums to 1.
C4_FrontierSortedByVolatility ==
    pc = "returned" =>
        /\ \A k \in 1..(Len(returned) - 1) :
              Le(returned[k].volatility, returned[k + 1].volatility)
        /\ \A k \in 1..Len(returned) :
              /\ Len(returned[k].weights) = Len(assets)
              /\ Sum(returned[k].weights) = One

\* a frontier was returned whose points the sort had to reorder
C4_Witness ==
    /\ pc = "returned"
    /\ Len(returned) >= 2
    /\ returned # frontierPoints
    /\ Lt(returned[1].volatility, returned[2].volatility)

\* C5: for every numPoints >= 1 the targets are a linear grid from 0.05 to
\* 0.30: each lies in [0.05, 0.30], the first is 0.05, and for numPoints >= 2
\* the last is 0.30 and neighbours are 0.25 / (numPoints - 1) apart.
C5_TargetsAreLinearGrid ==
    pc = "frontier" /\ i < numPoints =>
        LET t == targetReturn(i, numPoints)
        IN /\ Ge(t, R(5, 100)) /\ Le(t, R(30, 100))
           /\ i = 0 => t = R(5, 100)
           /\ numPoints >= 2 /\ i = numPoints - 1 => t = R(30, 100)
           /\ i >= 1 => Sub(t, targetReturn(i - 1, numPoints))
                           = R(25, 100 * (numPoints - 1))

\* the candidate's expected return is within 0.01 (absolute, strict) of t
WithinTolerance(c, t) ==
    LET diff == Sub(c.expectedReturn, t)
    IN Lt(diff, R(1, 100)) /\ Gt(diff, R(-1, 100))

\* the candidates sampled for the current target that are within tolerance of t
Accepted(t) == {k \in 1..Len(candidates) : WithinTolerance(candidates[k], t)}

\* the earliest candidate of least volatility among the accepted; 0 when none
EarliestMinVolatility(t) ==
    LET least == {a \in Accepted(t) :
                     \A b \in Accepted(t) :
                         Le(candidates[a].volatility, candidates[b].volatility)}
    IN IF least = {} THEN 0
       ELSE CHOOSE a \in least : \A b \in least : a <= b

\* the search of the current target is over and its outcome is about to be pushed
SearchDone == pc = "frontier" /\ i < numPoints /\ iteration = FrontierIterations

\* C6: every point of the frontier corresponds to one grid target: its return
\* is within 0.01 of that target and it is the candidate of least volatility
\* (the earliest on a tie) among the candidates sampled for that target whose
\* expected return was within 0.01 of it.
C6_PointIsLeastVolatileAccepted ==
    [][ /\ SearchDone /\ frontierPoints' # frontierPoints =>
            LET t == targetReturn(i, numPoints)
                a == EarliestMinVolatility(t)
                p == frontierPoints'[Len(frontierPoints')]
            IN /\ a # 0
               /\ frontierPoints' = Append(frontierPoints, p)
               /\ p.weights = candidates[a].weights
               /\ p.volatility = candidates[a].volatility
               /\ p.return = candidates[a].expectedReturn
               /\ WithinTolerance(candidates[a], t)
        /\ pc' = "returned" /\ pc = "frontier" =>
            \A k \in 1..Len(returned') :
                \E idx \in 0..(numPoints - 1) :
                    /\ WithinTolerance([expectedReturn |-> returned'[k].return],
                                       targetReturn(idx, numPoints))
                    /\ \E q \in 1..Len(frontierPoints) :
                          frontierPoints[q] = returned'[k]
      ]_vars

\* a search ended with two accepted candidates of different volatility, the
\* later one the less volatile, and that one is the one kept
C6_Witness ==
    /\ SearchDone
    /\ \E a, b \in Accepted(targetReturn(i, numPoints)) :
          /\ a < b
          /\ Lt(candidates[b].volatility, candidates[a].volatility)
          /\ EarliestMinVolatility(targetReturn(i, numPoints)) = b
          /\ bestWeights = candidates[b].weights

\* C7: a target none of whose sampled candidates has an expected return within
\* 0.01 of it contributes no point, a target with such a candidate contributes
\* exactly one; the call (on a non-empty asset list) does not throw and returns
\* at most numPoints points.
C7_OnePointPerTargetWithAccepted ==
    [][ /\ SearchDone =>
            /\ Len(frontierPoints') = Len(frontierPoints) +
                  (IF Accepted(targetReturn(i, numPoints)) # {} THEN 1 ELSE 0)
            /\ Len(frontierPoints') <= i'
            /\ pc' = "frontier"
        /\ pc = "frontier" /\ Len(assets) >= 1 => pc' # "threw"
        /\ pc = "frontier" /\ pc' = "returned" =>
            /\ Len(returned') = Len(frontierPoints)
            /\ Len(returned') <= numPoints
      ]_vars

\* a frontier was returned that kept one target and dropped another
C7_Witness ==
    /\ pc = "returned"
    /\ numPoints >= 2
    /\ Len(returned) >= 1
    /\ Len(returned) < numPoints

\* the input of a direct call is malformed: no asset, price or return series
\* of different lengths, or a weight vector not as long as the asset list
Malformed ==
    \/ Len(assets) = 0
    \/ \E a, b \in 1..Len(assets) :
          \/ Len(assets[a].prices) # Len(assets[b].prices)
          \/ Len(assets[a].returns) # Len(assets[b].returns)
    \/ Len(weights) # Len(assets)

\* C8: calculatePortfolioMetrics rejects malformed input with an error: an
\* empty asset list, series of different lengths or a weight vector of the
\* wrong length never yields a PortfolioMetrics.
C8_RejectsMalformedInput ==
    pc # "metrics" /\ Malformed => pc = "threw" /\ metrics.threw

\* the call of the two-asset scenario has returned
ScenarioAB ==
    /\ pc = "returned"
    /\ assets = <<AssetA, AssetB>>
    /\ weights = <<R(1, 2), R(1, 2)>>

\* what the scenario yields apart from its volatility: the expected return
\* 0.5 * (0.1 * 252) + 0.5 * 0, and no drawdown over the values 75, 80, 85.5
ScenarioABReturnAndDrawdown ==
    /\ AssetA.returns = <<R(1, 10), R(1, 10)>>
    /\ AssetB.returns = <<Zero, Zero>>
    /\ metrics.expectedReturn =
          Add(Mul(R(1, 2), Mul(R(1, 10), I(252))), Mul(R(1, 2), Zero))
    /\ portfolioValuesOf(assets, weights) = <<I(75), I(80), R(171, 2)>>
    /\ metrics.maxDrawdown = Zero

\* C9 as claimed: in the two-asset scenario the expected return is the weighted
\* annualised mean, volatility > 0 and maxDrawdown = 0.
C9_ScenarioAsClaimed ==
    ScenarioAB => ScenarioABReturnAndDrawdown /\ Gt(metrics.volatility, Zero)

\* C9 as amended: in the two-asset scenario the expected return is the weighted
\* annualised mean, volatility = 0 (both return series are constant) and
\* maxDrawdown = 0.
C9_ScenarioVolatilityZero ==
    ScenarioAB => ScenarioABReturnAndDrawdown /\ metrics.volatility = Zero

C9_Witness == ScenarioAB /\ metrics.sharpeRatio = PosInfinity

\* the assets of a direct call are aligned with positive prices, and the
\* weights are one per asset, non-negative, of sum 1
DrawdownInput ==
    /\ Len(assets) >= 1
    /\ \A a \in 1..Len(assets) :
          /\ Len(assets[a].prices) = Len(assets[1].prices)
          /\ \A t \in 1..Len(assets[a].prices) : Gt(assets[a].prices[t], Zero)
    /\ Len(weights) = Len(assets)
    /\ OnSimplex(weights)

\* value_t = sum over j of weights[j] * prices[j][t], t = 1 .. T
ValueAt(t) == Sum([j \in 1..Len(assets) |-> Mul(weights[j], assets[j].prices[t])])

\* peak_t: the largest value at any index <= t
PeakAt(t) ==
    CHOOSE v \in {ValueAt(u) : u \in 1..t} : \A u \in 1..t : Ge(v, ValueAt(u))

DrawdownAt(t) == Div(Sub(PeakAt(t), ValueAt(t)), PeakAt(t))

MaxDrawdownOverSeries ==
    LET T == Len(assets[1].prices)
    IN CHOOSE dd \in {DrawdownAt(t) : t \in 1..T} :
          \A t \in 1..T : Ge(dd, DrawdownAt(t))

ValuesNonDecreasing ==
    \A t \in 1..(Len(assets[1].prices) - 1) : Le(ValueAt(t), ValueAt(t + 1))

\* C10: for positive prices and non-negative weights of sum 1 maxDrawdown is
\* the maximum over t of (peak_t - value_t) / peak_t, is >= 0 and < 1, is 0
\* exactly when the value series is non-decreasing, and is 0.2 for the single
\* asset with prices 100, 80, 90 and weight 1.
C10_MaxDrawdownIsMaxPeakToTrough ==
    pc = "returned" /\ DrawdownInput =>
        /\ metrics.maxDrawdown = MaxDrawdownOverSeries
        /\ Ge(metrics.maxDrawdown, Zero)
        /\ Lt(metrics.maxDrawdown, One)
        /\ metrics.maxDrawdown = Zero <=> ValuesNonDecreasing
        /\ assets = <<AssetC>> /\ weights = <<One>> =>
              metrics.maxDrawdown = R(2, 10)

C10_Witness ==
    /\ pc = "returned"
    /\ assets = <<AssetC>>
    /\ weights = <<One>>
    /\ metrics.maxDrawdown = R(2, 10)

(***************************************************************************)
(* C11: a single asset with weight [1.0]                                   *)
(***************************************************************************)
SingleAsset ==
    /\ pc = "returned"
    /\ Len(assets) = 1
    /\ weights = <<One>>

\* the annualised sample variance of a series: the sum of the squared
\* deviations from the mean, over (m - 1), times 252
AnnualizedVariance(series) ==
    LET m == Len(series)
        mu == Div(Sum(series), I(m))
        sq == [t \in 1..m |-> Mul(Sub(series[t], mu), Sub(series[t], mu))]
    IN Mul(Div(Sum(sq), I(m - 1)), I(TradingDays))

\* C11: for a single asset with weight [1.0], expectedReturn is the asset's mean
\* return times 252, volatility squared is the asset's annualised sample
\* variance, and against its own return series as the market, when that
\* variance is not zero, beta is 1.
C11_SingleAssetMetrics ==
    SingleAsset =>
        LET series == assets[1].returns
        IN /\ metrics.expectedReturn =
                  Mul(Div(Sum(series), I(Len(series))), I(TradingDays))
           /\ metrics.volatility = AnnualizedVariance(series)
           /\ (Len(series) >= 2 /\ Sign(AnnualizedVariance(series)) > 0)
                  => metrics.beta = One

\* a single asset of varying returns was measured: its beta is 1 and its
\* volatility is positive
C11_Witness ==
    /\ SingleAsset
    /\ assets[1] = AssetC
    /\ metrics.beta = One
    /\ Gt(metrics.volatility, Zero)
    /\ metrics.expectedReturn = R(-189, 20)

(***************************************************************************)
(* A direct call of calculateReturns                                       *)
(***************************************************************************)
PriceValues == {I(0), I(50), I(100), I(110), I(121)}

PriceInputs == UNION {[1..n -> PriceValues] : n \in 0..MaxPrices}

InitReturns ==
    /\ pc = "calculateReturns"
    /\ assets = <<>>
    /\ weights = <<>>
    /\ numPoints = 0
    /\ LoopsIdle
    /\ NoComponents
    /\ arg \in PriceInputs
    /\ result = <<>>

callCalculateReturns ==
    /\ pc = "calculateReturns"
    /\ result' = calculateReturns(arg)
    /\ pc' = "returned"
    /\ UNCHANGED <<assets, weights, metrics, iteration, bestSharpe, bestWeights,
                   bestVolatility, numPoints, i, frontierPoints, returned,
                   candidates, arg, customTicker, ops, lastOp, viewType,
                   allocationData>>

NextReturns == callCalculateReturns

SpecReturns == InitReturns /\ [][NextReturns]_vars

(***************************************************************************)
(* C12: the returns of a price series                                      *)
(***************************************************************************)
ReturnsOfPositivePrices ==
    /\ pc = "returned"
    /\ Len(arg) >= 2
    /\ \A t \in 1..Len(arg) : Gt(arg[t], Zero)

\* C12: for a price sequence of length >= 2 with strictly positive values,
\* calculateReturns returns length - 1 returns, and prices[i] * (1 + returns[i])
\* is prices[i+1] at every index.
C12_ReturnsRoundTrip ==
    ReturnsOfPositivePrices =>
        /\ Len(result) = Len(arg) - 1
        /\ \A t \in 1..(Len(arg) - 1) :
               Mul(arg[t], Add(One, result[t])) = arg[t + 1]

\* the returns of a rising and then falling series were computed
C12_Witness ==
    /\ ReturnsOfPositivePrices
    /\ arg = <<I(100), I(110), I(50)>>
    /\ result = <<R(1, 10), R(-6, 11)>>

(***************************************************************************)
(* A direct call of calculateCovarianceMatrix                              *)
(***************************************************************************)
ReturnSeriesCatalog ==
    { <<R(1, 10)>>,
      <<R(1, 10), R(1, 10)>>,
      <<Zero, Zero>>,
      <<R(-1, 5), R(1, 8)>>,
      <<R(1, 5), R(-1, 4)>>,
      <<R(1, 10), R(1, 10), R(-1, 2)>>,
      <<Zero, R(1, 5), R(1, 10)>>,
      <<R(-1, 4), R(1, 2), Zero>> }

ReturnInputs == UNION {[1..n -> ReturnSeriesCatalog] : n \in 0..MaxAssets}

InitCovariance ==
    /\ pc = "calculateCovarianceMatrix"
    /\ assets = <<>>
    /\ weights = <<>>
    /\ numPoints = 0
    /\ LoopsIdle
    /\ NoComponents
    /\ arg \in ReturnInputs
    /\ result = <<>>

callCovarianceMatrix ==
    /\ pc = "calculateCovarianceMatrix"
    /\ IF covarianceThrows(arg)
       THEN /\ pc' = "threw"
            /\ UNCHANGED result
       ELSE /\ pc' = "returned"
            /\ result' = calculateCovarianceMatrix(arg)
    /\ UNCHANGED <<assets, weights, metrics, iteration, bestSharpe, bestWeights,
                   bestVolatility, numPoints, i, frontierPoints, returned,
                   candidates, arg, customTicker, ops, lastOp, viewType,
                   allocationData>>

NextCovariance == callCovarianceMatrix

SpecCovariance == InitCovariance /\ [][NextCovariance]_vars

(***************************************************************************)
(* C13: the covariance matrix                                              *)
(***************************************************************************)
CovarianceOfAlignedSeries ==
    /\ pc = "returned"
    /\ Len(arg) >= 1
    /\ Len(arg[1]) >= 2
    /\ \A a \in 1..Len(arg) : Len(arg[a]) = Len(arg[1])

\* the sum of the products of the deviations from the two series' means,
\* over (m - 1), times 252
SampleCovariance(x, y) ==
    LET m == Len(x)
        mx == Div(Sum(x), I(m))
        my == Div(Sum(y), I(m))
        prod == [t \in 1..m |-> Mul(Sub(x[t], mx), Sub(y[t], my))]
    IN Mul(Div(Sum(prod), I(m - 1)), I(TradingDays))

\* C13: for n >= 1 return series of one length m >= 2 the result is an n x n
\* matrix, cov[i][j] = cov[j][i] for all i, j, and each entry is the sum of the
\* products of the deviations from the means, divided by m - 1, times 252.
C13_CovarianceSymmetric ==
    CovarianceOfAlignedSeries =>
        /\ Len(result) = Len(arg)
        /\ \A a \in 1..Len(arg) :
               /\ Len(result[a]) = Len(arg)
               /\ \A b \in 1..Len(arg) :
                      /\ result[a][b] = result[b][a]
                      /\ result[a][b] = SampleCovariance(arg[a], arg[b])

\* the matrix of two different series with a covariance that is not zero
C13_Witness ==
    /\ CovarianceOfAlignedSeries
    /\ Len(arg) = 2
    /\ arg[1] # arg[2]
    /\ Lt(result[1][2], Zero)
    /\ Gt(result[1][1], Zero)
    /\ result[1][1] # result[2][2]

(***************************************************************************)
(* C14: the best-so-far reduction                                          *)
(***************************************************************************)
\* what the loop of optimizePortfolio retains
NothingRetained == [sharpeRatio |-> NegInfinity, weights |-> <<>>]

\* the loop body's update of (bestSharpe, bestWeights) by one candidate
Retain(best, c) ==
    IF improvesSharpe(c.sharpeRatio, best.sharpeRatio)
    THEN [sharpeRatio |-> c.sharpeRatio, weights |-> c.weights]
    ELSE best

\* the loop over the candidates cands[order[1]], cands[order[2]], ...
RECURSIVE BestSoFar(_, _, _, _)
BestSoFar(cands, order, k, best) ==
    IF k > Len(order) THEN best
    ELSE BestSoFar(cands, order, k + 1, Retain(best, cands[order[k]]))

\* the orders in which the candidates of the set S can be processed
OrdersOf(S) ==
    {o \in [1..Cardinality(S) -> S] :
        \A a, b \in 1..Cardinality(S) : a # b => o[a] # o[b]}

\* the results of two workers merged by max-Sharpe
MergeBest(x, y) == Retain(x, y)

\* the results the candidates evaluated so far can give: in any order, by one
\* worker or split across two
ReductionResults ==
    LET all == 1..Len(candidates)
    IN {BestSoFar(candidates, o, 1, NothingRetained) : o \in OrdersOf(all)}
       \cup
       UNION { {MergeBest(BestSoFar(candidates, o1, 1, NothingRetained),
                          BestSoFar(candidates, o2, 1, NothingRetained)) :
                    o1 \in OrdersOf(S), o2 \in OrdersOf(all \ S)} :
               S \in SUBSET all }

TiedAtBest(w) ==
    \E k \in 1..Len(candidates) :
        /\ candidates[k].weights = w
        /\ candidates[k].sharpeRatio = bestSharpe

\* C14: whatever the order in which a fixed collection of candidates is
\* processed, and however it is split across workers merged by max-Sharpe, the
\* final best Sharpe ratio is the same; the retained weight vector differs
\* only among candidates tied at that Sharpe ratio.
C14_BestSharpeOrderIndependent ==
    pc \in {"optimize", "returned"} =>
        \A r \in ReductionResults :
            /\ r.sharpeRatio = bestSharpe
            /\ r.weights # bestWeights =>
                   TiedAtBest(r.weights) /\ TiedAtBest(bestWeights)

\* a finished search in which the candidates' Sharpe ratios differ, the best
\* one was not the last, and another order retains another weight vector
C14_Witness ==
    /\ pc = "returned"
    /\ Len(candidates) = OptIterations
    /\ Lt(candidates[OptIterations].sharpeRatio, bestSharpe)
    /\ \E r \in ReductionResults : r.weights # bestWeights

(***************************************************************************)
(* Mock price data, createDefaultAssets                                    *)
(***************************************************************************)
\* the length of the generated price histories (252 in createDefaultAssets)
HistoryDays == 2

\* the handlers of AssetSelector run in one behaviour
MaxOps == 2

\* Math.random() within one handler: the k-th call of the stream chosen by seed
Seeds == 0..(DrawDen - 1)

random(seed, k) == R((seed + k) % DrawDen, DrawDen)

\* Math.max(x, y)
Max(x, y) == IF IsNaN(x) \/ IsNaN(y) THEN NaN ELSE IF Lt(x, y) THEN y ELSE x

\* Math.floor(x) of a finite x >= 0, as an integer
Floor(x) == x.n \div x.d

\* the loop of generateMockPriceData from index idx on; its calls of
\* Math.random() are the calls k0 + idx - 1 of the stream
RECURSIVE MockPricesFrom(_, _, _, _, _)
MockPricesFrom(prices, idx, days, seed, k0) ==
    IF idx >= days THEN prices
    ELSE LET drift == R(4, 10000)
             volatility == R(15, 1000)
             randomShock == Mul(Mul(Sub(random(seed, k0 + idx - 1), R(1, 2)), I(2)),
                                volatility)
             nextPrice == Mul(prices[idx], Add(Add(One, drift), randomShock))
         IN MockPricesFrom(Append(prices, Max(nextPrice, R(1, 100))),
                           idx + 1, days, seed, k0)

generateMockPriceData(initialPrice, days, seed, k0) ==
    MockPricesFrom(<<initialPrice>>, 1, days, seed, k0)

assetData ==
    << [symbol |-> "SPY", basePrice |-> 450],
       [symbol |-> "QQQ", basePrice |-> 380],
       [symbol |-> "TLT", basePrice |-> 100],
       [symbol |-> "GLD", basePrice |-> 180],
       [symbol |-> "EEM", basePrice |-> 50],
       [symbol |-> "VNQ", basePrice |-> 90],
       [symbol |-> "EFA", basePrice |-> 75],
       [symbol |-> "VTI", basePrice |-> 230] >>

\* the Math.random() calls one createDefaultAssets() makes
DefaultAssetsCalls == Len(assetData) * (HistoryDays - 1)

\* createDefaultAssets(), its first Math.random() call being call k0
createDefaultAssets(seed, k0) ==
    [a \in 1..Len(assetData) |->
        LET generated == generateMockPriceData(I(assetData[a].basePrice), HistoryDays,
                                               seed, k0 + (a - 1) * (HistoryDays - 1))
        IN [symbol |-> assetData[a].symbol,
            prices |-> generated,
            returns |-> calculateReturns(generated)]]

(***************************************************************************)
(* AssetSelector                                                           *)
(***************************************************************************)
ASSET_UNIVERSE ==
    << "SPY", "QQQ", "VTI", "IWM", "TLT", "IEF", "LQD", "HYG",
       "GLD", "SLV", "USO", "EEM", "EFA", "VNQ", "XLF", "XLK" >>

\* the symbol lists of the Conservative, Balanced and Aggressive presets
Presets ==
    [ Conservative |-> {"TLT", "IEF", "LQD", "GLD", "VNQ"},
      Balanced     |-> {"SPY", "QQQ", "TLT", "EFA", "GLD", "VNQ"},
      Aggressive   |-> {"QQQ", "IWM", "EEM", "XLK", "USO", "SLV"} ]

\* the universe buttons and the remove buttons clicked, the tickers typed
UniverseClicks == {"SPY", "IWM", "XLK"}

RemoveClicks == {"SPY", "IWM", "AAPL"}

TickerInputs == {" ", "spy", " spy", "aapl", "AAPL"}

\* String.prototype.toUpperCase and trim on the tickers typed
toUpperCase(s) ==
    CASE s = "spy" -> "SPY"
      [] s = " spy" -> " SPY"
      [] s = "aapl" -> "AAPL"
      [] OTHER -> s

trim(s) == IF s = " " THEN "" ELSE IF s = " spy" THEN "spy" ELSE s

\* assets.some(a => a.symbol === symbol), never true
hasSymbol_Never(list, symbol) == FALSE

\* assets.some(a => a.symbol === symbol)
hasSymbol(list, symbol) == \E a \in 1..Len(list) : list[a].symbol = symbol

\* template.prices.map(p => p * (lo - width / 2 + Math.random() * width))
variedPrices_Centred(templatePrices, lo, width, seed, k0) ==
    [t \in 1..Len(templatePrices) |->
        Mul(templatePrices[t],
            Add(Sub(lo, One), Mul(random(seed, k0 + t - 1), width)))]

\* template.prices.map(p => p * (lo + Math.random() * width)), the first
\* Math.random() call being call k0
variedPrices(templatePrices, lo, width, seed, k0) ==
    [t \in 1..Len(templatePrices) |->
        Mul(templatePrices[t], Add(lo, Mul(random(seed, k0 + t - 1), width)))]

\* newAsset.prices.slice(1).map((price, i) =>
\*     (price - newAsset.prices[i]) / newAsset.prices[i])
newAssetReturns(newPrices) ==
    [t \in 1..(Len(newPrices) - 1) |->
        Div(Sub(newPrices[t + 1], newPrices[t]), newPrices[t])]

\* the asset addAssetFromUniverse and the presets build for a symbol
universeAsset(symbol, seed, k0) ==
    LET defaultAssets == createDefaultAssets(seed, k0)
        template == defaultAssets[1]
        newPrices == variedPrices(template.prices, R(8, 10), R(4, 10), seed,
                                  k0 + DefaultAssetsCalls)
    IN [symbol |-> symbol, prices |-> newPrices,
        returns |-> newAssetReturns(newPrices)]

\* the asset addCustomAsset builds
customAsset(ticker, seed) ==
    LET defaultAssets == createDefaultAssets(seed, 0)
        template == defaultAssets[
            Floor(Mul(random(seed, DefaultAssetsCalls), I(Len(defaultAssets)))) + 1]
        newPrices == variedPrices(template.prices, R(5, 10), R(15, 10), seed,
                                  DefaultAssetsCalls + 1)
    IN [symbol |-> toUpperCase(ticker), prices |-> newPrices,
        returns |-> newAssetReturns(newPrices)]

\* ASSET_UNIVERSE.filter(a => symbols.includes(a.symbol)).map(asset => ...)
presetAssets(symbols, seed) ==
    LET chosen == SelectSeq(ASSET_UNIVERSE, LAMBDA s : s \in symbols)
    IN [a \in 1..Len(chosen) |->
           universeAsset(chosen[a], seed,
                         (a - 1) * (DefaultAssetsCalls + HistoryDays))]

InitSelector ==
    /\ pc = "selector"
    /\ \E seed \in Seeds : assets = createDefaultAssets(seed, 0)
    /\ weights = <<>>
    /\ numPoints = 0
    /\ LoopsIdle
    /\ NoCall
    /\ NoComponents

\* what no handler of AssetSelector touches
selectorUnchanged ==
    UNCHANGED <<pc, weights, metrics, iteration, bestSharpe, bestWeights,
                bestVolatility, numPoints, i, frontierPoints, returned,
                candidates, arg, result, viewType, allocationData>>

handlerRuns(op, symbol) ==
    /\ pc = "selector"
    /\ ops < MaxOps
    /\ ops' = ops + 1
    /\ lastOp' = [op |-> op, symbol |-> symbol]
    /\ selectorUnchanged

addAssetFromUniverse ==
    \E assetInfo \in UniverseClicks, seed \in Seeds :
        /\ handlerRuns("addAssetFromUniverse", assetInfo)
        /\ IF hasSymbol(assets, assetInfo)
           THEN UNCHANGED assets
           ELSE assets' = Append(assets, universeAsset(assetInfo, seed, 0))
        /\ UNCHANGED customTicker

setCustomTicker ==
    \E text \in TickerInputs :
        /\ handlerRuns("setCustomTicker", text)
        /\ customTicker' = text
        /\ UNCHANGED assets

addCustomAsset ==
    \E seed \in Seeds :
        /\ handlerRuns("addCustomAsset", toUpperCase(customTicker))
        /\ IF trim(customTicker) = "" \/ hasSymbol(assets, toUpperCase(customTicker))
           THEN UNCHANGED <<assets, customTicker>>
           ELSE /\ assets' = Append(assets, customAsset(customTicker, seed))
                /\ customTicker' = ""

removeAsset ==
    \E symbol \in RemoveClicks :
        /\ hasSymbol(assets, symbol)
        /\ handlerRuns("removeAsset", symbol)
        /\ assets' = SelectSeq(assets, LAMBDA a : a.symbol # symbol)
        /\ UNCHANGED customTicker

applyPreset ==
    \E preset \in DOMAIN Presets, seed \in Seeds :
        /\ handlerRuns("applyPreset", preset)
        /\ assets' = presetAssets(Presets[preset], seed)
        /\ UNCHANGED customTicker

NextSelector ==
    \/ addAssetFromUniverse
    \/ setCustomTicker
    \/ addCustomAsset
    \/ removeAsset
    \/ applyPreset

SpecSelector == InitSelector /\ [][NextSelector]_vars

(***************************************************************************)
(* C15: symbols are unique within the portfolio                            *)
(***************************************************************************)
UniqueSymbols ==
    \A a, b \in 1..Len(assets) : a # b => assets[a].symbol # assets[b].symbol

\* the step of an add handler run on a symbol the portfolio already has
AddOfPresentSymbol ==
    /\ ops' = ops + 1
    /\ lastOp'.op \in {"addAssetFromUniverse", "addCustomAsset"}
    /\ \E a \in 1..Len(assets) : assets[a].symbol = lastOp'.symbol

\* C15: from the createDefaultAssets portfolio, after any sequence of add from
\* universe, add custom ticker, remove and preset, no two assets of the
\* portfolio have the same symbol, and an add of a symbol already present
\* leaves the portfolio unchanged.
C15_SymbolsUnique ==
    /\ [](pc = "selector" => UniqueSymbols)
    /\ [][AddOfPresentSymbol => assets' = assets]_vars

\* IWM was added from the universe and then added again
C15_Witness ==
    /\ pc = "selector"
    /\ ops = 2
    /\ lastOp = [op |-> "addAssetFromUniverse", symbol |-> "IWM"]
    /\ Len(assets) = Len(assetData) + 1
    /\ assets[Len(assets)].symbol = "IWM"

(***************************************************************************)
(* C16: the assets of the portfolio are well formed and aligned            *)
(***************************************************************************)
WellFormedAsset(asset) ==
    /\ \A t \in 1..Len(asset.prices) : Gt(asset.prices[t], Zero)
    /\ Len(asset.returns) = Len(asset.prices) - 1
    /\ \A t \in 1..Len(asset.returns) :
           asset.returns[t] =
               Div(Sub(asset.prices[t + 1], asset.prices[t]), asset.prices[t])
    /\ Len(asset.prices) = HistoryDays

\* C16: after any sequence of AssetSelector operations from the
\* createDefaultAssets portfolio, every asset has strictly positive prices,
\* returns[i] = (prices[i+1] - prices[i]) / prices[i] of length one less, and
\* every asset has the same number of price observations (HistoryDays here,
\* 252 in the code).
C16_AssetsWellFormedAndAligned ==
    pc = "selector" => \A a \in 1..Len(assets) : WellFormedAsset(assets[a])

\* a custom asset was added to the default portfolio, with prices that differ
\* from the templates' base price
C16_Witness ==
    /\ pc = "selector"
    /\ lastOp.op = "addCustomAsset"
    /\ Len(assets) = Len(assetData) + 1
    /\ assets[Len(assets)].symbol = "AAPL"
    /\ assets[Len(assets)].prices[1] # I(assetData[1].basePrice)
    /\ \E a \in 1..Len(assetData) : assets[a].returns # assets[Len(assets)].returns

(***************************************************************************)
(* AllocationChart                                                         *)
(***************************************************************************)
ChartSymbols == <<"SPY", "QQQ", "TLT">>

\* the asset lists given to the chart: up to MaxAssets different symbols
ChartAssets ==
    {list \in UNION {[1..n -> {[symbol |-> ChartSymbols[a]] : a \in 1..Len(ChartSymbols)}] :
                        n \in 0..MaxAssets} :
        \A a, b \in 1..Len(list) : a # b => list[a] # list[b]}

WeightShares == {Zero, R(1, 1000), R(1, 4), R(1, 2), R(3, 4), One, NaN}

ChartWeights == UNION {[1..n -> WeightShares] : n \in 0..MaxAssets}

\* x.toFixed(0) as a number: the nearest integer, the larger one on a tie of
\* a positive x
toFixed0(x) ==
    IF x.k # "fin" THEN x
    ELSE I(SignInt(x.n) * ((2 * AbsInt(x.n) + x.d) \div (2 * x.d)))

\* assets.map((asset, index) => ({ name, weight, percentage, ... }))
allocationRows(list, ws) ==
    [a \in 1..Len(list) |->
        [name |-> list[a].symbol,
         weight |-> At(ws, a - 1),
         percentage |-> Mul(At(ws, a - 1), I(100))]]

\* .filter(item => item.weight > 0.001)
listedRows(rows) == SelectSeq(rows, LAMBDA item : Gt(item.weight, R(1, 1000)))

\* .sort((a, b) => b.weight - a.weight): a stable sort
RECURSIVE InsertByWeight(_, _)
InsertByWeight(sorted, x) ==
    IF sorted = <<>> THEN <<x>>
    ELSE IF Gt(Sub(x.weight, sorted[Len(sorted)].weight), Zero)
         THEN Append(InsertByWeight(SubSeq(sorted, 1, Len(sorted) - 1), x),
                     sorted[Len(sorted)])
         ELSE Append(sorted, x)

RECURSIVE SortByWeightFrom(_, _, _)
SortByWeightFrom(rows, k, acc) ==
    IF k > Len(rows) THEN acc
    ELSE SortByWeightFrom(rows, k + 1, InsertByWeight(acc, rows[k]))

sortByWeightDescending(rows) == SortByWeightFrom(rows, 1, <<>>)

\* the dollar text of a row: (10000 * item.weight / 100).toFixed(0)
dollarAmount(item) == toFixed0(Div(Mul(I(10000), item.weight), I(100)))

\* the rows of the allocation table, each with the dollar amount it displays
renderedRows(list, ws) ==
    LET rows == sortByWeightDescending(listedRows(allocationRows(list, ws)))
    IN [a \in 1..Len(rows) |->
           [name |-> rows[a].name, weight |-> rows[a].weight,
            percentage |-> rows[a].percentage, amount |-> dollarAmount(rows[a])]]

InitAllocation ==
    /\ pc = "allocation"
    /\ assets \in ChartAssets
    /\ weights \in ChartWeights
    /\ numPoints = 0
    /\ LoopsIdle
    /\ NoCall
    /\ NoComponents

allocationUnchanged ==
    UNCHANGED <<assets, weights, metrics, iteration, bestSharpe, bestWeights,
                bestVolatility, numPoints, i, frontierPoints, returned,
                candidates, arg, result, customTicker, ops, lastOp>>

\* the first render
renderAllocationChart ==
    /\ pc = "allocation"
    /\ pc' = "rendered"
    /\ allocationData' = renderedRows(assets, weights)
    /\ UNCHANGED viewType
    /\ allocationUnchanged

\* the Pie and Bar buttons: the state changes and the component renders again
setViewType ==
    /\ pc = "rendered"
    /\ \E v \in {"pie", "bar"} : viewType' = v
    /\ allocationData' = renderedRows(assets, weights)
    /\ UNCHANGED pc
    /\ allocationUnchanged

NextAllocation == renderAllocationChart \/ setViewType

SpecAllocation == InitAllocation /\ [][NextAllocation]_vars

(***************************************************************************)
(* C17: the dollar amounts of the allocation table                         *)
(***************************************************************************)
FullyAllocated ==
    /\ Len(weights) = Len(assets)
    /\ Sum(weights) = One
    /\ \A a \in 1..Len(weights) : Gt(weights[a], R(1, 1000))

\* C17: the dollar amount displayed for each listed asset is its share of a
\* $10,000 portfolio, 10000 * weight, so that over weights summing to 1, each
\* above 0.001, the amounts total $10,000; assets of weight <= 0.001 are not
\* listed, and the listed ones are ordered by weight descending.
C17_DollarAmountsAreShares ==
    pc = "rendered" =>
        /\ \A a \in 1..Len(allocationData) :
               allocationData[a].amount =
                   toFixed0(Mul(I(10000), allocationData[a].weight))
        /\ FullyAllocated =>
               Sum([a \in 1..Len(allocationData) |-> allocationData[a].amount])
                   = I(10000)
        /\ \A a \in 1..Len(assets) :
               (\E r \in 1..Len(allocationData) :
                    allocationData[r].name = assets[a].symbol)
                   <=> (a <= Len(weights) /\ Gt(weights[a], R(1, 1000)))
        /\ \A a \in 1..(Len(allocationData) - 1) :
               Ge(allocationData[a].weight, allocationData[a + 1].weight)

=============================================================================
